---- MODULE Spec2Model ----
(***************************************************************************)
(* A model of the sudoku core of rs-sudoku: the grid of src/src/game.rs    *)
(* (cells, index arithmetic, neighbours, candidate values, completeness,   *)
(* do_move, fill_rng, unfill, save, from_file) and the naked-single solver *)
(* of src/src/solver.rs.  Indices are 0-based as in the code; a grid is a  *)
(* function from 0 .. side*side-1 to cells.                                *)
(***************************************************************************)
EXTENDS Integers, Sequences, FiniteSets, TLC

VARIABLES
    size,            \* Game.size: the block size B
    side_size,       \* Game.side_size = size * size
    save_file,       \* Game.save_file.is_some()
    selected_index,  \* Game.selected_index  (None or Some(index))
    selected_value,  \* Game.selected_value  (None or Some(value))
    grid,            \* Game.grid
    file,            \* the lines of the attached save file, as last written
    pc,              \* where the host is: "new", "fill", "filled", "unfill", "play", ...
    order,           \* the iteration order of candidate sets in this fill
    stack,           \* fill_rng's recursion: what each call has left to try
    attempt,         \* unfill's local attempt counter
    result           \* what the last call returned

vars == <<size, side_size, save_file, selected_index, selected_value, grid,
          file, pc, order, stack, attempt, result>>

----------------------------------------------------------------------------
(* Program constants.                                                      *)

MAX_UNFILL_ATTEMPTS == 3
MIN_CLUES == 17

(* Bounds of the model.                                                    *)

\* do_move is tried on rows and columns 0 .. MaxCoord and on the
\* out-of-range coordinate side_size; the cells a loaded file overwrites
\* are those of rows and columns 0 .. MaxCoord.
MaxCoord == 1
\* At most MaxMoves player values are on the grid.
MaxMoves == 2
\* The random index of unfill is drawn among the MaxRng lowest non-empty cells.
MaxRng == 2
\* The number of iteration orders of the candidate set tried by fill_rng.
MaxOrders == 1
\* The grids handed to is_done alone are a finished grid with at most
\* MaxEdits cells overwritten.
MaxEdits == 2

\* The clues of a save file that are altered
MaxFileEdits == 1

\* The block sizes of the model: 4x4 and 9x9 grids.
Sizes == {2, 3}

----------------------------------------------------------------------------
(* Cells and grids.                                                        *)

\* Option<T>: None, or Some(x)
None == <<>>

Some(x) == <<x>>

Cell(v, i) == [value |-> v, initial |-> i]

EmptyCell == Cell(0, FALSE)

\* A grid of empty cells flagged as clues.
EmptyClueGrid(side) == [i \in 0 .. side * side - 1 |-> Cell(0, TRUE)]

\* vec![Cell {value: 0, initial: false}; side_size * side_size]
EmptyGrid(side) == [i \in 0 .. side * side - 1 |-> EmptyCell]

nb_non_empty(g) == Cardinality({i \in DOMAIN g : g[i].value # 0})

nb_empty(g) == Cardinality({i \in DOMAIN g : g[i].value = 0})

\* coordinates that gives the column first.
coordinates_column_first(side, i) == <<i % side, i \div side>>

coordinates(side, i) == <<i \div side, i % side>>

index(side, r, c) == r * side + c

column(side, c) == [x \in 1 .. side |-> index(side, x - 1, c)]

row(side, r) == [x \in 1 .. side |-> index(side, r, x - 1)]

\* group that starts the block at the cell itself.
group_from_cell(sz, r, c) ==
    [k \in 1 .. sz * sz |->
        index(sz * sz, r + ((k - 1) \div sz), c + ((k - 1) % sz))]

group(sz, r, c) ==
    LET start_row == (r \div sz) * sz
        start_col == (c \div sz) * sz
    IN  [k \in 1 .. sz * sz |->
            index(sz * sz, start_row + ((k - 1) \div sz), start_col + ((k - 1) % sz))]

\* neighbors that forgets the row of the cell.
neighbors_column_group(sz, r, c) == column(sz * sz, c) \o group(sz, r, c)

neighbors(sz, r, c) == column(sz * sz, c) \o row(sz * sz, r) \o group(sz, r, c)

\* The loop of valids: remove the used values one by one, stopping as soon
\* as no candidate is left.
RECURSIVE RemoveUsed(_, _, _)
RemoveUsed(possibles, used, k) ==
    IF k > Len(used) THEN possibles
    ELSE LET p == possibles \ {used[k]}
         IN  IF p = {} THEN p ELSE RemoveUsed(p, used, k + 1)

\* valids that gives no candidate for an occupied cell.
valids_empty_when_occupied(g, sz, i) ==
    LET rc   == coordinates(sz * sz, i)
        nbrs == neighbors(sz, rc[1], rc[2])
        used == [k \in 1 .. Len(nbrs) |-> g[nbrs[k]].value]
    IN  IF g[i].value # 0 THEN {} ELSE RemoveUsed(1 .. sz * sz, used, 1)

\* valids that does not count the value of the cell itself as used.
valids_other_cells(g, sz, i) ==
    LET rc   == coordinates(sz * sz, i)
        nbrs == neighbors(sz, rc[1], rc[2])
        used == [k \in 1 .. Len(nbrs) |-> IF nbrs[k] = i THEN 0 ELSE g[nbrs[k]].value]
    IN  RemoveUsed(1 .. sz * sz, used, 1)

\* valids that forgets the block of the cell.
valids_column_row(g, sz, i) ==
    LET rc   == coordinates(sz * sz, i)
        nbrs == column(sz * sz, rc[2]) \o row(sz * sz, rc[1])
        used == [k \in 1 .. Len(nbrs) |-> g[nbrs[k]].value]
    IN  RemoveUsed(1 .. sz * sz, used, 1)

\* The candidate values of cell i, as a set (the code returns the elements
\* of a HashSet in its iteration order).  The candidates start as
\* 1 ..= self.side_size as u8: the side is cut to 8 bits.
valids(g, sz, i) ==
    LET rc   == coordinates(sz * sz, i)
        nbrs == neighbors(sz, rc[1], rc[2])
        used == [k \in 1 .. Len(nbrs) |-> g[nbrs[k]].value]
    IN  RemoveUsed(1 .. ((sz * sz) % 256), used, 1)

\* "appears at least once" for every value of 1 .. side in the cells of ixs
AllValuesIn(g, side, ixs) ==
    ~ \E v \in 1 .. side : ~ \E k \in 1 .. Len(ixs) : g[ixs[k]].value = v

\* is_done that forgets the loop over the columns.
is_done_rows_groups(g, sz) ==
    LET side == sz * sz
    IN  IF \E i \in DOMAIN g : g[i].value = 0 THEN FALSE
        ELSE IF \E r \in 0 .. side - 1 : ~ AllValuesIn(g, side, row(side, r)) THEN FALSE
        ELSE IF \E gx \in 0 .. sz - 1 : \E gy \in 0 .. sz - 1 :
                  ~ AllValuesIn(g, side, group(sz, gx * sz, gy * sz)) THEN FALSE
        ELSE TRUE

is_done(g, sz) ==
    LET side == sz * sz
    IN  IF \E i \in DOMAIN g : g[i].value = 0 THEN FALSE
        ELSE IF \E r \in 0 .. side - 1 : ~ AllValuesIn(g, side, row(side, r)) THEN FALSE
        ELSE IF \E c \in 0 .. side - 1 : ~ AllValuesIn(g, side, column(side, c)) THEN FALSE
        ELSE IF \E gx \in 0 .. sz - 1 : \E gy \in 0 .. sz - 1 :
                  ~ AllValuesIn(g, side, group(sz, gx * sz, gy * sz)) THEN FALSE
        ELSE TRUE

----------------------------------------------------------------------------
(* do_move.                                                                *)

\* do_move that checks the value before the position.
move_check_value_first(g, sz, r, c, value) ==
    LET side == sz * sz
    IN  IF value = 0 \/ value > side THEN "IllegalValue"
        ELSE IF r >= side \/ c >= side THEN "IllegalPosition"
        ELSE IF g[index(side, r, c)].value # 0 THEN "NonEmptyCell"
        ELSE IF value \notin valids(g, sz, index(side, r, c)) THEN "InvalidValue"
        ELSE "Ok"

\* do_move that looks for a conflict before it looks at the target cell.
move_check_conflict_first(g, sz, r, c, value) ==
    LET side == sz * sz
    IN  IF r >= side \/ c >= side THEN "IllegalPosition"
        ELSE IF value = 0 \/ value > side THEN "IllegalValue"
        ELSE IF value \notin valids(g, sz, index(side, r, c)) THEN "InvalidValue"
        ELSE IF g[index(side, r, c)].value # 0 THEN "NonEmptyCell"
        ELSE "Ok"

\* do_move that does not look at the target cell.
move_check_any_cell(g, sz, r, c, value) ==
    LET side == sz * sz
    IN  IF r >= side \/ c >= side THEN "IllegalPosition"
        ELSE IF value = 0 \/ value > side THEN "IllegalValue"
        ELSE IF value \notin valids(g, sz, index(side, r, c)) THEN "InvalidValue"
        ELSE "Ok"

\* The checks of do_move, in the order of the code: the error of the first
\* check that fails, or "Ok".
move_check(g, sz, r, c, value) ==
    LET side == sz * sz
    IN  IF r >= side \/ c >= side THEN "IllegalPosition"
        ELSE IF value = 0 \/ value > side THEN "IllegalValue"
        ELSE IF g[index(side, r, c)].value # 0 THEN "NonEmptyCell"
        ELSE IF value \notin valids(g, sz, index(side, r, c)) THEN "InvalidValue"
        ELSE "Ok"

\* The cell written as a clue.
set_cell_as_clue(g, sz, r, c, value) ==
    [g EXCEPT ![index(sz * sz, r, c)] = Cell(value, TRUE)]

\* self.grid[index] = Cell { value, initial: false }
set_cell(g, sz, r, c, value) ==
    [g EXCEPT ![index(sz * sz, r, c)] = Cell(value, FALSE)]

\* do_move that writes the cell before it checks the cell and the conflicts.
do_move_set_first(g, sz, r, c, value) ==
    LET chk == move_check(g, sz, r, c, value)
    IN  IF chk \in {"IllegalPosition", "IllegalValue"}
        THEN [result |-> chk, grid |-> g]
        ELSE [result |-> chk, grid |-> set_cell(g, sz, r, c, value)]

\* do_move up to the save: what it is about to return and the grid it leaves.
do_move(g, sz, r, c, value) ==
    LET chk == move_check(g, sz, r, c, value)
    IN  IF chk # "Ok"
        THEN [result |-> chk, grid |-> g]
        ELSE [result |-> "Ok", grid |-> set_cell(g, sz, r, c, value)]

----------------------------------------------------------------------------
(* save: the lines of the save file.                                       *)

\* format!("{}", n) for an unsigned n: its decimal digits
RECURSIVE Digits(_)
Digits(n) == IF n < 10 THEN <<n>> ELSE Append(Digits(n \div 10), n % 10)

Line(tag, digits, cells) == [k |-> tag, n |-> digits, cells |-> cells]

\* "<value>/<I|N>" for every cell, in index order
CellsLine(g) ==
    [j \in 1 .. Cardinality(DOMAIN g) |->
        [d |-> Digits(g[j - 1].value), f |-> IF g[j - 1].initial THEN "I" ELSE "N"]]

SaveLines(sz, sel, g) ==
    <<Line("game_size", Digits(sz), <<>>)>>
    \o (IF sel # None THEN <<Line("selected", Digits(sel[1]), <<>>)>> ELSE <<>>)
    \o <<Line("cells", <<>>, CellsLine(g))>>

\* The places where save can fail with WriteSaveError ("none": it does not).
SaveFailures(sel) ==
    {"none", "rewind", "game_size", "cells"}
    \cup (IF sel # None THEN {"selected"} ELSE {})

\* save() on a game with a save file, lines being what it has to write:
\* it rewinds, then writes the lines one by one over the old content (the
\* file is not truncated); a failing write ends the call, leaving the lines
\* written so far over the old ones.
save(lines, old, fail) ==
    LET n       == CASE fail = "none"      -> Len(lines)
                     [] fail = "rewind"    -> 0
                     [] fail = "game_size" -> 0
                     [] fail = "selected"  -> 1
                     [] fail = "cells"     -> Len(lines) - 1
        written == SubSeq(lines, 1, n)
    IN  [result |-> IF fail = "none" THEN "Ok" ELSE "WriteSaveError",
         file   |-> written \o SubSeq(old, n + 1, Len(old))]

----------------------------------------------------------------------------
(* fill_rng.                                                               *)

\* An iteration order of the candidate HashSet: the k-th rotation of
\* 1 .. side.
Order(k, side) == [j \in 1 .. side |-> ((j - 1 + k - 1) % side) + 1]

\* The elements of set s in the order ord
Ordered(s, ord) == SelectSeq(ord, LAMBDA x : x \in s)

\* The recursion of fill_rng is kept as an explicit stack: frame j (from 1)
\* is the call fill_rng(j - 1) and holds what is left of its `for n in v`.

\* fill_rng that tries every value of 1 .. side on the cell.
fill_candidates_any(g, sz, current_cell, ord) == Ordered(1 .. sz * sz, ord)

\* let v = self.valids(current_cell), in the iteration order ord
fill_candidates(g, sz, current_cell, ord) ==
    Ordered(valids(g, sz, current_cell), ord)

\* self.grid[current_cell] = Cell { value: n, initial: true }
fill_set(g, current_cell, n) == [g EXCEPT ![current_cell] = Cell(n, TRUE)]

\* A fill_rng that returns false without resetting its cell.
fill_reset_keep(g, current_cell) == g

\* self.grid[current_cell] = Cell { value: 0, initial: false }
fill_reset(g, current_cell) == [g EXCEPT ![current_cell] = Cell(0, FALSE)]

\* if current_cell >= self.side_size * self.side_size { return true }
fill_complete(sz, current_cell) == current_cell >= (sz * sz) * (sz * sz)

----------------------------------------------------------------------------
(* The Obvious solver.                                                     *)

\* A scan that stops on the cells with more than one candidate.
naked_several(g, sz) ==
    {i \in DOMAIN g : g[i].value = 0 /\ Cardinality(valids(g, sz, i)) > 1}

\* for i in 0..side*side { if grid[i] == 0 && valids(i).len() == 1 {..} }:
\* the cells the scan can stop on
naked_singles(g, sz) ==
    {i \in DOMAIN g : g[i].value = 0 /\ Cardinality(valids(g, sz, i)) = 1}

\* the last of them in index order
last_single(singles) == CHOOSE i \in singles : \A j \in singles : i >= j

\* the first of them in index order
first_single(singles) == CHOOSE i \in singles : \A j \in singles : i <= j

\* A solver that rebuilds the grid with every flag false when it sets cell i.
solve_set_all_flags(g, sz, i) ==
    [j \in DOMAIN g |->
        IF j = i THEN Cell(CHOOSE v \in valids(g, sz, i) : TRUE, FALSE)
        ELSE Cell(g[j].value, FALSE)]

\* game.grid[i] = Cell { value: game.valids(i)[0], initial: false }
solve_set(g, sz, i) ==
    [g EXCEPT ![i] = Cell(CHOOSE v \in valids(g, sz, i) : TRUE, FALSE)]

RECURSIVE solve_guess(_, _)

\* A solver that guesses when no naked single is left: it sets the first
\* empty cell that has a candidate to the highest of its candidates.
solve_guess(g, sz) ==
    IF is_done(g, sz) THEN [ok |-> TRUE, grid |-> g]
    ELSE LET singles == naked_singles(g, sz)
             open    == {i \in DOMAIN g : g[i].value = 0 /\ valids(g, sz, i) # {}}
         IN  IF singles # {}
             THEN solve_guess(solve_set(g, sz, first_single(singles)), sz)
             ELSE IF open = {} THEN [ok |-> FALSE, grid |-> g]
             ELSE LET i == first_single(open)
                      v == CHOOSE n \in valids(g, sz, i) :
                               \A m \in valids(g, sz, i) : n >= m
                  IN  solve_guess([g EXCEPT ![i] = Cell(v, FALSE)], sz)

RECURSIVE solve(_, _)

\* Obvious::solve: Ok at once on a finished grid; otherwise the first naked
\* single is set and the solver starts again; with none, FailedToSolve.
solve(g, sz) ==
    IF is_done(g, sz) THEN [ok |-> TRUE, grid |-> g]
    ELSE LET singles == naked_singles(g, sz)
         IN  IF singles = {} THEN [ok |-> FALSE, grid |-> g]
             ELSE solve(solve_set(g, sz, first_single(singles)), sz)

----------------------------------------------------------------------------
(* unfill.                                                                 *)

\* The indices the inner resampling loop of unfill can end on: non-empty
\* cells (here the MaxRng lowest of them).
RngDraws(g) ==
    LET ne == {i \in DOMAIN g : g[i].value # 0}
    IN  {i \in ne : Cardinality({j \in ne : j < i}) < MaxRng}

\* grid[random_index] = {0, initial: false}: the grid handed to the solver
emptied(g, random_index) == [g EXCEPT ![random_index] = Cell(0, FALSE)]

\* An iteration that does not put the value back when the solver fails.
unfill_iter_keep_removed(g, att, random_index, solved) ==
    IF ~ solved
    THEN [grid |-> emptied(g, random_index), attempt |-> att - 1]
    ELSE [grid |-> emptied(g, random_index), attempt |-> att]

\* An iteration that hands the game itself to the solver, not a copy: what
\* the solver has written stays in the grid.
unfill_iter_no_copy(g, att, random_index, solved) ==
    LET old_value == g[random_index].value
        solved_in_place == solve(emptied(g, random_index), size).grid
    IN  IF ~ solved
        THEN [grid    |-> [solved_in_place EXCEPT ![random_index] = Cell(old_value, TRUE)],
              attempt |-> att - 1]
        ELSE [grid |-> solved_in_place, attempt |-> att]

\* An iteration that starts the attempts again when the last one fails.
unfill_iter_again(g, att, random_index, solved) ==
    LET old_value == g[random_index].value
    IN  IF ~ solved
        THEN [grid    |-> [g EXCEPT ![random_index] = Cell(old_value, TRUE)],
              attempt |-> IF att = 1 THEN MAX_UNFILL_ATTEMPTS ELSE att - 1]
        ELSE [grid |-> emptied(g, random_index), attempt |-> att]

\* An iteration that counts an attempt whether the solver fails or not.
unfill_iter_count_all(g, att, random_index, solved) ==
    LET old_value == g[random_index].value
    IN  IF ~ solved
        THEN [grid    |-> [g EXCEPT ![random_index] = Cell(old_value, TRUE)],
              attempt |-> att - 1]
        ELSE [grid |-> emptied(g, random_index), attempt |-> att - 1]

\* An iteration that puts another value back when the solver fails.
unfill_iter_restore_other(g, att, random_index, solved) ==
    LET old_value == g[random_index].value
    IN  IF ~ solved
        THEN [grid    |-> [g EXCEPT ![random_index] =
                              Cell(IF old_value = 1 THEN 2 ELSE old_value - 1, TRUE)],
              attempt |-> att - 1]
        ELSE [grid |-> emptied(g, random_index), attempt |-> att]

\* One iteration of the loop of unfill, given what the solver answered on
\* the copy.
unfill_iter(g, att, random_index, solved) ==
    LET old_value == g[random_index].value
    IN  IF ~ solved
        THEN [grid    |-> [emptied(g, random_index) EXCEPT
                              ![random_index] = Cell(old_value, TRUE)],
              attempt |-> att - 1]
        ELSE [grid |-> emptied(g, random_index), attempt |-> att]

\* while attempt > 0 && self.nb_non_empty() >= MIN_CLUES
unfill_continues(g, att) == att > 0 /\ nb_non_empty(g) >= MIN_CLUES

----------------------------------------------------------------------------
(* The state machine.                                                      *)

\* Game::new(size, saving_path): an empty grid, no selection; with a saving
\* path the file is created empty.
Init ==
    /\ size \in Sizes
    /\ side_size = size * size
    /\ save_file \in BOOLEAN
    /\ selected_index = None
    /\ selected_value = None
    /\ grid = EmptyGrid(size * size)
    /\ file = <<>>
    /\ pc = "new"
    /\ order = 0
    /\ stack = <<>>
    /\ attempt = 0
    /\ result = "None"

NbPlayer(g) == Cardinality({i \in DOMAIN g : g[i].value # 0 /\ ~ g[i].initial})

Coords == {x \in 0 .. MaxCoord : x < side_size} \cup {side_size}

Values == 0 .. side_size + 1

\* The hosts.  A game with a save file is the one of Cli and Gui: they call
\* new_random_game on the game they have just built, and only do_move from
\* then on.  A game without a save file is one built with Game::new(size,
\* None), as the tests build it: do_move and clear are called on it.
Playing == pc = "play" \/ (pc = "new" /\ ~ save_file)

\* Game::do_move(r, c, value), with the save that follows an accepted move
\* on a game attached to a save file.
DoMove(r, c, value) ==
    /\ Playing
    /\ pc' = "play"
    /\ LET m == do_move(grid, size, r, c, value)
       IN  /\ grid' = m.grid
           /\ IF m.result = "Ok" /\ save_file
              THEN LET lines == SaveLines(size, selected_index, grid')
                   IN  \E fail \in SaveFailures(selected_index) :
                         /\ result' = save(lines, file, fail).result
                         /\ file' = save(lines, file, fail).file
              ELSE /\ result' = m.result
                   /\ UNCHANGED file
    /\ UNCHANGED <<size, side_size, save_file, selected_index, selected_value,
                   order, stack, attempt>>

\* Game::clear()
Clear ==
    /\ pc = "play"
    /\ ~ save_file
    /\ grid' = EmptyGrid(side_size)
    /\ pc' = "new"
    /\ result' = "None"
    /\ attempt' = 0
    /\ UNCHANGED <<size, side_size, save_file, selected_index, selected_value,
                   file, order, stack>>

\* new_random_game, first part: clear(), then the call fill_rng(0), whose
\* candidate sets iterate in the k-th order.
NewRandomGame(k) ==
    /\ pc = "new"
    /\ save_file
    /\ grid' = EmptyGrid(side_size)
    /\ order' = k
    /\ stack' = <<fill_candidates(grid', size, 0, Order(k, side_size))>>
    /\ pc' = "fill"
    /\ result' = "None"
    /\ UNCHANGED <<size, side_size, save_file, selected_index, selected_value,
                   file, attempt>>

\* One iteration of the loop of the innermost call fill_rng(current_cell):
\* with a candidate n left, the cell is set and fill_rng(current_cell + 1)
\* is called, which either is past the last cell (true, and every caller
\* returns true) or starts its own loop; with none left, the cell is reset
\* and the call returns false to its caller (or to new_random_game).
FillStep ==
    /\ pc = "fill"
    /\ LET current_cell == Len(stack) - 1
           v            == stack[Len(stack)]
       IN  IF v = <<>>
           THEN /\ grid' = fill_reset(grid, current_cell)
                /\ stack' = SubSeq(stack, 1, Len(stack) - 1)
                /\ IF Len(stack) = 1
                   THEN pc' = "filled" /\ result' = "false" /\ order' = 0
                   ELSE UNCHANGED <<pc, result, order>>
           ELSE /\ grid' = fill_set(grid, current_cell, Head(v))
                /\ IF fill_complete(size, current_cell + 1)
                   THEN /\ stack' = <<>>
                        /\ pc' = "filled"
                        /\ result' = "true"
                        /\ order' = 0
                   ELSE /\ stack' = Append([stack EXCEPT ![Len(stack)] = Tail(v)],
                                           fill_candidates(grid', size, current_cell + 1,
                                                           Order(order, side_size)))
                        /\ UNCHANGED <<pc, result, order>>
    /\ UNCHANGED <<size, side_size, save_file, selected_index, selected_value,
                   file, attempt>>

\* unfill: let (mut attempt, mut rng) = (MAX_UNFILL_ATTEMPTS, thread_rng())
UnfillEnter ==
    /\ pc = "filled"
    /\ pc' = "unfill"
    /\ attempt' = MAX_UNFILL_ATTEMPTS
    /\ UNCHANGED <<size, side_size, save_file, selected_index, selected_value,
                   grid, file, order, stack, result>>

\* One iteration of unfill's loop on cell random_index, the solver having
\* answered solved.
UnfillBody(random_index, solved) ==
    /\ pc = "unfill"
    /\ unfill_continues(grid, attempt)
    /\ LET u == unfill_iter(grid, attempt, random_index, solved)
       IN  /\ grid' = u.grid
           /\ attempt' = u.attempt
    /\ UNCHANGED <<size, side_size, save_file, selected_index, selected_value,
                   file, pc, order, stack, result>>

\* unfill(solver::Obvious): the callers' solver
UnfillObvious ==
    /\ pc = "unfill"
    /\ \E random_index \in RngDraws(grid) :
          UnfillBody(random_index, solve(emptied(grid, random_index), size).ok)

\* unfill(solver) for any implementation of the Solver trait
UnfillAnySolver ==
    /\ pc = "unfill"
    /\ \E random_index \in RngDraws(grid) : \E solved \in BOOLEAN :
          UnfillBody(random_index, solved)

\* The loop of unfill ends and new_random_game returns Ok(()).
UnfillExit ==
    /\ pc = "unfill"
    /\ ~ unfill_continues(grid, attempt)
    /\ pc' = "play"
    /\ result' = "Generated"
    /\ UNCHANGED <<size, side_size, save_file, selected_index, selected_value,
                   grid, file, order, stack, attempt>>

\* The calls do_move(r, c, value) of the model.
MoveInputs == Coords \X Coords \X Values

MoveErrors == {"IllegalPosition", "IllegalValue", "NonEmptyCell", "InvalidValue"}

\* Two calls refused with the same error lead to the same state: every
\* accepted call is taken, and one call for each error.
MoveCalls ==
    LET chk == [m \in MoveInputs |-> move_check(grid, size, m[1], m[2], m[3])]
    IN  {m \in MoveInputs : chk[m] = "Ok"}
        \cup {CHOOSE m \in MoveInputs : chk[m] = e :
                  e \in {x \in MoveErrors : \E m \in MoveInputs : chk[m] = x}}

Move ==
    /\ Playing
    /\ NbPlayer(grid) < MaxMoves
    /\ \E m \in MoveCalls : DoMove(m[1], m[2], m[3])

Generate == \E k \in 1 .. MaxOrders : NewRandomGame(k)

Next == Move \/ Clear \/ Generate \/ FillStep \/ UnfillEnter \/ UnfillObvious \/ UnfillExit

Spec == Init /\ [][Next]_vars

\* The generation of a puzzle alone: new_random_game up to its return.
NextGenerate == Generate \/ FillStep \/ UnfillEnter \/ UnfillObvious \/ UnfillExit

SpecGenerate == Init /\ [][NextGenerate]_vars

\* The same program with unfill called with an arbitrary solver.
NextAnySolver == Generate \/ FillStep \/ UnfillEnter \/ UnfillAnySolver \/ UnfillExit

SpecAnySolver == Init /\ [][NextAnySolver]_vars

\* The generation runs to its end: new_random_game is sequential code, its
\* loops take their next step as long as one is there to take, and the
\* solver and the resampling of random_index are taken to return.
SpecAnySolverFair == Init /\ [][NextAnySolver]_vars /\ WF_vars(NextAnySolver)

----------------------------------------------------------------------------
(* is_done as a function of the grid.  Game::from_file takes the cells as  *)
(* the file gives them, so a 9x9 game can hold any digits: the grids here  *)
(* are a finished grid with at most MaxEdits cells of its upper left       *)
(* corner overwritten by any digit of 0 .. side.                           *)

\* A finished grid of block size sz, every cell a clue.
FinishedGrid(sz) ==
    LET side == sz * sz
    IN  [i \in 0 .. side * side - 1 |->
            LET r == i \div side
                c == i % side
            IN  Cell((((r % sz) * sz + (r \div sz) + c) % side) + 1, TRUE)]

EditCells(sz) == {index(sz * sz, r, c) : r \in 0 .. MaxCoord, c \in 0 .. MaxCoord}

\* The sets of cells that the file overwrites.
EditSets(sz) == {T \in SUBSET EditCells(sz) : Cardinality(T) <= MaxEdits}

\* The finished grid with the cells of S overwritten by the digits f.
LoadedGrid(sz, S, f) ==
    LET finished == FinishedGrid(sz)
    IN  [i \in DOMAIN finished |->
            IF i \in S THEN Cell(f[i], FALSE) ELSE finished[i]]

InitLoaded ==
    /\ size = 3
    /\ side_size = size * size
    /\ save_file = TRUE
    /\ selected_index = None
    /\ selected_value = None
    /\ \E S \in EditSets(size) : \E f \in [S -> 0 .. size * size] :
          grid = LoadedGrid(size, S, f)
    /\ file = <<>>
    /\ pc = "loaded"
    /\ order = 0
    /\ stack = <<>>
    /\ attempt = 0
    /\ result = "None"

\* game.is_done()
IsDone ==
    /\ pc = "loaded"
    /\ pc' = "checked"
    /\ result' = IF is_done(grid, size) THEN "true" ELSE "false"
    /\ UNCHANGED <<size, side_size, save_file, selected_index, selected_value,
                   grid, file, order, stack, attempt>>

NextIsDone == IsDone

SpecIsDone == InitLoaded /\ [][NextIsDone]_vars

----------------------------------------------------------------------------
(* from_file, and a game resumed from the file of the resume path.         *)

\* str::parse of a string of decimal digits
RECURSIVE Number(_)
Number(d) ==
    IF Len(d) = 0 THEN 0 ELSE Number(SubSeq(d, 1, Len(d) - 1)) * 10 + d[Len(d)]

\* The first element of a non-empty set of positions
First(S) == CHOOSE j \in S : \A k \in S : j <= k

\* RE_GAME_SIZE: the lines "game_size: d" with d one of 3, 4, 5
MatchGameSize(f) ==
    {j \in 1 .. Len(f) : f[j].k = "game_size" /\ f[j].n \in {<<3>>, <<4>>, <<5>>}}

\* RE_SELECTED: the lines "selected: " followed by one digit or more
MatchSelected(f) == {j \in 1 .. Len(f) : f[j].k = "selected" /\ Len(f[j].n) > 0}

\* RE_CELLS: the lines "cells: " followed by one cell or more written with
\* one digit
MatchCells(f) ==
    {j \in 1 .. Len(f) :
        f[j].k = "cells" /\ Len(f[j].cells) > 0 /\ Len(f[j].cells[1].d) = 1}

\* What RE_CELLS matches of a line of cells, and so what RE_CELL iterates
\* on: the cells up to the first one that is not written with one digit.
MatchedCells(cells) ==
    LET other == {j \in 1 .. Len(cells) : Len(cells[j].d) # 1}
    IN  SubSeq(cells, 1, IF other = {} THEN Len(cells) ELSE First(other) - 1)

\* The places where from_file can fail on the file system ("none": it does
\* not): read_to_string, and the final open of the file for writing.
FromFileFailures == {"none", "read", "open"}

\* Game::from_file(path), f being the lines of the file and io the place
\* where the file system fails.
from_file(f, io) ==
    LET gs == MatchGameSize(f)
        sl == MatchSelected(f)
        cl == MatchCells(f)
    IN  IF io = "read" THEN [result |-> "OpenFileError"]
        ELSE IF gs = {} \/ cl = {} THEN [result |-> "ParseSaveFileError"]
        ELSE LET game_size == Number(f[First(gs)].n)
                 selected  == IF sl = {} THEN None ELSE Some(Number(f[First(sl)].n))
                 cells     == MatchedCells(f[First(cl)].cells)
                 nb        == game_size * game_size * game_size * game_size
             IN  IF Len(cells) # nb THEN [result |-> "IncorrectSaveFile"]
                 ELSE IF selected # None /\ selected[1] >= nb
                 THEN [result |-> "IncorrectSaveFile"]
                 ELSE IF io = "open" THEN [result |-> "OpenSaveFileError"]
                 ELSE [result         |-> "Ok",
                       size           |-> game_size,
                       selected_index |-> selected,
                       selected_value |->
                           IF selected # None /\ Number(cells[selected[1] + 1].d) # 0
                           THEN Some(Number(cells[selected[1] + 1].d))
                           ELSE None,
                       grid           |->
                           [i \in 0 .. nb - 1 |->
                               Cell(Number(cells[i + 1].d), cells[i + 1].f = "I")]]

\* The block sizes of the files of the model: 9x9 and 16x16 grids.
FileSizes == {3, 4}

\* The grid of a file: a finished grid of which the values written with two
\* digits are left to the player.
FileGrid(sz) ==
    LET finished == FinishedGrid(sz)
    IN  [i \in DOMAIN finished |->
            IF finished[i].value >= 10 THEN EmptyCell ELSE finished[i]]

\* What a file can hold in place of a clue of that grid: an empty cell with
\* either flag, or the same value entered by the player.
FileEdits == {"0/I", "0/N", "v/N"}

FileCells(sz, S, e) ==
    LET g == FileGrid(sz)
    IN  [i \in DOMAIN g |->
            IF i \notin S THEN g[i]
            ELSE CASE e[i] = "0/I" -> Cell(0, TRUE)
                   [] e[i] = "0/N" -> Cell(0, FALSE)
                   [] e[i] = "v/N" -> Cell(g[i].value, FALSE)]

\* The clues of the grid that a file holds otherwise: at most MaxFileEdits
\* of its upper left corner.
FileEditSets(sz) == {T \in SUBSET EditCells(sz) : Cardinality(T) <= MaxFileEdits}

\* The line "selected: " of a file: none, the first cell, or one past the
\* last cell.
FileSelections(sz) == {None, Some(0), Some(sz * sz * sz * sz)}

\* The program starts with no game and a file at the resume path: an empty
\* one (Game::new has created it and nothing was saved), or the save of a
\* game.
InitFile ==
    /\ size = 0
    /\ side_size = 0
    /\ save_file = FALSE
    /\ selected_index = None
    /\ selected_value = None
    /\ grid = EmptyGrid(0)
    /\ \/ file = <<>>
       \/ \E sz \in FileSizes : \E sel \in FileSelections(sz) :
          \E S \in FileEditSets(sz) : \E e \in [S -> FileEdits] :
             file = SaveLines(sz, sel, FileCells(sz, S, e))
    /\ pc = "file"
    /\ order = 0
    /\ stack = <<>>
    /\ attempt = 0
    /\ result = "None"

\* GameScreen::init: self.game = Some(Game::from_file(path)?), at the first
\* launch or, the resume path being the save path of a game left unfinished,
\* at the next one.
FromFile(io) ==
    /\ pc \in {"file", "play"}
    /\ pc = "play" => (save_file /\ ~ is_done(grid, size))
    /\ LET ld == from_file(file, io)
       IN  IF ld.result = "Ok"
           THEN /\ size' = ld.size
                /\ side_size' = ld.size * ld.size
                /\ save_file' = TRUE
                /\ selected_index' = ld.selected_index
                /\ selected_value' = ld.selected_value
                /\ grid' = ld.grid
                /\ pc' = "play"
                /\ result' = "Ok"
           ELSE /\ pc' = "failed"
                /\ result' = ld.result
                /\ UNCHANGED <<size, side_size, save_file, selected_index,
                               selected_value, grid>>
    /\ UNCHANGED <<file, order, stack, attempt>>

Resume == \E io \in FromFileFailures : FromFile(io)

NextResume == Resume \/ Move

SpecResume == InitFile /\ [][NextResume]_vars

----------------------------------------------------------------------------
(* The new game of Gui: Game::new(config.game_size, Some(path)), clear,    *)
(* fill_rng(0), unfill(Obvious) and save; the game left unfinished is the  *)
(* one from_file reads at the next launch.                                 *)

\* The block sizes of the games of Gui in the model: 9x9 and 16x16 grids.
GuiSizes == {3, 4}

InitGui ==
    /\ size \in GuiSizes
    /\ side_size = size * size
    /\ save_file = TRUE
    /\ selected_index = None
    /\ selected_value = None
    /\ grid = EmptyGrid(size * size)
    /\ file = <<>>
    /\ pc = "new"
    /\ order = 0
    /\ stack = <<>>
    /\ attempt = 0
    /\ result = "None"

\* The loop of unfill ends and Gui::new_random_game saves the new game:
\* new_game.save()?, then set_game(new_game).
GuiUnfillExit ==
    /\ pc = "unfill"
    /\ ~ unfill_continues(grid, attempt)
    /\ LET lines == SaveLines(size, selected_index, grid)
       IN  \E fail \in SaveFailures(selected_index) :
             /\ file' = save(lines, file, fail).file
             /\ IF fail = "none"
                THEN pc' = "play" /\ result' = "Generated"
                ELSE pc' = "failed" /\ result' = save(lines, file, fail).result
    /\ UNCHANGED <<size, side_size, save_file, selected_index, selected_value,
                   grid, order, stack, attempt>>

NextGui == Generate \/ FillStep \/ UnfillEnter \/ UnfillObvious \/ GuiUnfillExit \/ Resume

SpecGui == InitGui /\ [][NextGui]_vars

----------------------------------------------------------------------------
(* coordinates and index as functions of their arguments, called on a new  *)
(* game as test_coordinates calls them; stack holds the arguments of the   *)
(* call and result what it returned.                                       *)

\* game.coordinates(i), for an index of the grid
CallCoordinates(i) ==
    /\ pc = "new"
    /\ ~ save_file
    /\ pc' = "coordinates"
    /\ stack' = <<i>>
    /\ result' = coordinates(side_size, i)
    /\ UNCHANGED <<size, side_size, save_file, selected_index, selected_value,
                   grid, file, order, attempt>>

\* game.index(r, c), for a row and a column of the grid
CallIndex(r, c) ==
    /\ pc = "new"
    /\ ~ save_file
    /\ pc' = "index"
    /\ stack' = <<r, c>>
    /\ result' = index(side_size, r, c)
    /\ UNCHANGED <<size, side_size, save_file, selected_index, selected_value,
                   grid, file, order, attempt>>

Coordinates == \E i \in 0 .. side_size * side_size - 1 : CallCoordinates(i)

Index == \E r \in 0 .. side_size - 1 : \E c \in 0 .. side_size - 1 : CallIndex(r, c)

NextCoordinates == Coordinates \/ Index

SpecCoordinates == Init /\ [][NextCoordinates]_vars

----------------------------------------------------------------------------
(* row, column, group and neighbors as functions of their arguments,       *)
(* called on a new game for a row and a column of the grid; stack holds    *)
(* the arguments of the call and result the indices it yields, in order.   *)

\* game.row(r).collect()
CallRow(r) ==
    /\ pc = "new"
    /\ ~ save_file
    /\ pc' = "row"
    /\ stack' = <<r>>
    /\ result' = row(side_size, r)
    /\ UNCHANGED <<size, side_size, save_file, selected_index, selected_value,
                   grid, file, order, attempt>>

\* game.column(c).collect()
CallColumn(c) ==
    /\ pc = "new"
    /\ ~ save_file
    /\ pc' = "column"
    /\ stack' = <<c>>
    /\ result' = column(side_size, c)
    /\ UNCHANGED <<size, side_size, save_file, selected_index, selected_value,
                   grid, file, order, attempt>>

\* game.group(r, c).collect()
CallGroup(r, c) ==
    /\ pc = "new"
    /\ ~ save_file
    /\ pc' = "group"
    /\ stack' = <<r, c>>
    /\ result' = group(size, r, c)
    /\ UNCHANGED <<size, side_size, save_file, selected_index, selected_value,
                   grid, file, order, attempt>>

\* game.neighbors(r, c).collect()
CallNeighbors(r, c) ==
    /\ pc = "new"
    /\ ~ save_file
    /\ pc' = "neighbors"
    /\ stack' = <<r, c>>
    /\ result' = neighbors(size, r, c)
    /\ UNCHANGED <<size, side_size, save_file, selected_index, selected_value,
                   grid, file, order, attempt>>

Row == \E r \in 0 .. side_size - 1 : CallRow(r)

Column == \E c \in 0 .. side_size - 1 : CallColumn(c)

Group == \E r \in 0 .. side_size - 1 : \E c \in 0 .. side_size - 1 : CallGroup(r, c)

Neighbors == \E r \in 0 .. side_size - 1 : \E c \in 0 .. side_size - 1 : CallNeighbors(r, c)

NextNeighbors == Row \/ Column \/ Group \/ Neighbors

SpecNeighbors == Init /\ [][NextNeighbors]_vars

----------------------------------------------------------------------------
(* Obvious::solve call by call, on the copies that unfill hands to it:     *)
(* SolverEnter leaves the game for its copy, of which the variables speak  *)
(* from then on, and every SolveCall is one call of solve on that copy.    *)

\* unfill empties the cell random_index, copies the game (no save file, no
\* selection) and calls solver.solve(&mut game_copy).
SolverEnter(random_index) ==
    /\ pc = "unfill"
    /\ unfill_continues(grid, attempt)
    /\ grid' = emptied(grid, random_index)
    /\ save_file' = FALSE
    /\ selected_index' = None
    /\ selected_value' = None
    /\ pc' = "solve"
    /\ result' = "None"
    /\ UNCHANGED <<size, side_size, file, order, stack, attempt>>

\* One call of Obvious::solve(game): Ok on a finished grid; otherwise the
\* first naked single is set and solve is called again; with none,
\* Err(FailedToSolve), which every caller returns.
SolveCall ==
    /\ pc = "solve"
    /\ IF is_done(grid, size)
       THEN pc' = "solved" /\ result' = "Ok" /\ UNCHANGED grid
       ELSE LET singles == naked_singles(grid, size)
            IN  IF singles = {}
                THEN pc' = "unsolved" /\ result' = "FailedToSolve" /\ UNCHANGED grid
                ELSE /\ grid' = solve_set(grid, size, first_single(singles))
                     /\ UNCHANGED <<pc, result>>
    /\ UNCHANGED <<size, side_size, save_file, selected_index, selected_value,
                   file, order, stack, attempt>>

EnterSolver ==
    /\ pc = "unfill"
    /\ \E random_index \in RngDraws(grid) : SolverEnter(random_index)

NextSolve ==
    \/ Generate \/ FillStep \/ UnfillEnter \/ UnfillObvious \/ UnfillExit
    \/ EnterSolver \/ SolveCall

SpecSolve == Init /\ [][NextSolve]_vars

----------------------------------------------------------------------------
(* The clicks of GameScreen::update on a game read by from_file.  A click  *)
(* is the cell it falls on, or none; result holds what do_move returned    *)
(* when the click called it, and the outcome of the screen otherwise.      *)

\* The clicks of the model fall outside the grid or on a cell of its upper
\* left corner.
MaxClick == 3

ClickCoords == {x \in 0 .. MaxClick : x < side_size}

\* MouseButtonUp outside the grid: a selection is dropped.
ClickOutside ==
    /\ pc = "play"
    /\ save_file
    /\ IF selected_index # None
       THEN /\ selected_index' = None
            /\ selected_value' = None
            /\ result' = "Updated"
       ELSE /\ result' = "Unchanged"
            /\ UNCHANGED <<selected_index, selected_value>>
    /\ UNCHANGED <<size, side_size, save_file, grid, file, pc, order, stack,
                   attempt>>

\* MouseButtonUp on the cell (row_index, col_index): click_value is read,
\* an empty cell takes the selected value through do_move (with its save,
\* written while the selection is still the old one), and the selection
\* becomes the cell and click_value.
ClickCell(row_index, col_index) ==
    /\ pc = "play"
    /\ save_file
    /\ LET click_index == index(side_size, row_index, col_index)
           click_value == grid[click_index].value
       IN  /\ IF click_value = 0 /\ selected_value # None
              THEN LET m == do_move(grid, size, row_index, col_index,
                                    selected_value[1])
                   IN  /\ grid' = m.grid
                       /\ IF m.result = "Ok"
                          THEN LET lines == SaveLines(size, selected_index, grid')
                               IN  \E fail \in SaveFailures(selected_index) :
                                     /\ result' = save(lines, file, fail).result
                                     /\ file' = save(lines, file, fail).file
                          ELSE /\ result' = m.result
                               /\ UNCHANGED file
              ELSE /\ result' = "Updated"
                   /\ UNCHANGED <<grid, file>>
           /\ selected_index' = Some(click_index)
           /\ selected_value' = Some(click_value)
    /\ UNCHANGED <<size, side_size, save_file, pc, order, stack, attempt>>

Click == ClickOutside \/ \E r \in ClickCoords, c \in ClickCoords : ClickCell(r, c)

NextClick == Resume \/ Click

SpecClick == InitFile /\ [][NextClick]_vars

----------------------------------------------------------------------------
(* What the properties speak of, stated on the coordinates of the cells.   *)

SameRow(sz, i, j) == i \div (sz * sz) = j \div (sz * sz)

SameColumn(sz, i, j) == i % (sz * sz) = j % (sz * sz)

SameBlock(sz, i, j) ==
    /\ (i \div (sz * sz)) \div sz = (j \div (sz * sz)) \div sz
    /\ (i % (sz * sz)) \div sz = (j % (sz * sz)) \div sz

Related(sz, i, j) == SameRow(sz, i, j) \/ SameColumn(sz, i, j) \/ SameBlock(sz, i, j)

\* For every cell, the cells after it that share its row, column or block.
Peers ==
    [sz \in Sizes |->
        [i \in 0 .. sz * sz * sz * sz - 1 |->
            {j \in i + 1 .. sz * sz * sz * sz - 1 : Related(sz, i, j)}]]

NoConflict(g, sz) ==
    \A i \in DOMAIN g :
        g[i].value # 0 => \A j \in Peers[sz][i] : g[j].value # g[i].value

\* The rows, the columns and the blocks, as sets of cells.
Units ==
    [sz \in Sizes |->
        LET cells == 0 .. sz * sz * sz * sz - 1
        IN  {{j \in cells : SameRow(sz, i, j)} : i \in cells}
            \cup {{j \in cells : SameColumn(sz, i, j)} : i \in cells}
            \cup {{j \in cells : SameBlock(sz, i, j)} : i \in cells}]

ExactlyOnce(g, sz) ==
    \A u \in Units[sz] : \A v \in 1 .. sz * sz :
        Cardinality({i \in u : g[i].value = v}) = 1

HasEmpty(g) == \E i \in DOMAIN g : g[i].value = 0

AllClues(g) == \A i \in DOMAIN g : g[i].initial

----------------------------------------------------------------------------
(* C1: in every state reached from an empty grid or from a generated       *)
(* puzzle by do_move calls, accepted or refused, no two distinct cells of  *)
(* a row, a column or a block hold the same non-zero value (the grids that *)
(* fill_rng and unfill go through on the way are included).                *)
C1_NoConflict == NoConflict(grid, size)

\* A generated 9x9 puzzle on which a move was accepted and a later one was
\* refused for a conflict.
C1_Witness ==
    /\ pc = "play"
    /\ save_file
    /\ size = 3
    /\ NbPlayer(grid) >= 1
    /\ result = "InvalidValue"

(* C3: starting from a cleared grid, fill_rng(0) returns true and leaves a *)
(* grid for which is_done() is true, without two equal values in a row, a  *)
(* column or a block, and with every cell a clue.                          *)
C3_FillComplete ==
    pc = "filled" =>
        /\ result = "true"
        /\ is_done(grid, size)
        /\ NoConflict(grid, size)
        /\ AllClues(grid)

\* fill_rng(0) has returned on the 9x9 grid.
C3_Witness == pc = "filled" /\ size = 3 /\ ~ HasEmpty(grid)

(* C6: is_done() is false on a grid with an empty cell, and on a grid      *)
(* without one it is true exactly when every row, column and block holds   *)
(* each value of 1 .. side exactly once.                                   *)
C6_IsDone ==
    pc = "checked" =>
        /\ HasEmpty(grid) => result = "false"
        /\ ~ HasEmpty(grid) => (result = "true" <=> ExactlyOnce(grid, size))

\* is_done() has answered false on a grid without an empty cell in which
\* every row holds every value.
C6_Witness ==
    /\ pc = "checked"
    /\ result = "false"
    /\ ~ HasEmpty(grid)
    /\ \A r \in 0 .. side_size - 1 : AllValuesIn(grid, side_size, row(side_size, r))

----------------------------------------------------------------------------
(* The properties of one call of do_move: they are stated on the steps     *)
(* s -> t of the program and on every call do_move(r, c, value) that       *)
(* takes s to t.                                                           *)

InGrid(r, c) == r < side_size /\ c < side_size

InRange(value) == 1 <= value /\ value <= side_size

Target(r, c) == r * side_size + c

\* No cell of the row, the column or the block of (r, c) holds value.
Free(g, sz, r, c, value) ==
    \A j \in DOMAIN g : Related(sz, r * sz * sz + c, j) => g[j].value # value

(* C2: on a game without a save file, do_move(r, c, v) returns Ok exactly  *)
(* when r < side and c < side, 1 <= v <= side, the target cell is empty    *)
(* and no cell of row r, column c or the block of (r, c) holds v; on Ok    *)
(* the target cell becomes {value: v, initial: false} and every other      *)
(* cell, size and side_size are unchanged.                                 *)
C2_MoveOk ==
    [][\A m \in MoveInputs :
         (~ save_file /\ DoMove(m[1], m[2], m[3])) =>
            /\ result' = "Ok" <=>
                  /\ InGrid(m[1], m[2])
                  /\ InRange(m[3])
                  /\ grid[Target(m[1], m[2])].value = 0
                  /\ Free(grid, size, m[1], m[2], m[3])
            /\ result' = "Ok" =>
                  /\ grid' = [grid EXCEPT ![Target(m[1], m[2])] =
                                 [value |-> m[3], initial |-> FALSE]]
                  /\ size' = size
                  /\ side_size' = side_size]_vars

\* Two moves were accepted on a 9x9 game without a save file.
C2_Witness ==
    /\ ~ save_file
    /\ size = 3
    /\ pc = "play"
    /\ result = "Ok"
    /\ NbPlayer(grid) = 2

(* C7: when do_move returns IllegalPosition, IllegalValue, NonEmptyCell or *)
(* InvalidValue, every cell's value and initial flag is as it was before   *)
(* the call.                                                               *)
C7_RefusedKeepsGrid ==
    [][\A m \in MoveInputs :
         (result' \in MoveErrors /\ DoMove(m[1], m[2], m[3])) => grid' = grid]_vars

\* A move was refused on a cell of a generated puzzle that holds a clue.
C7_Witness ==
    /\ pc = "play"
    /\ result = "NonEmptyCell"
    /\ \E i \in DOMAIN grid : grid[i].initial

C8_ErrorKeepsGrid ==
    [][\A m \in MoveInputs :
         (result' # "Ok" /\ DoMove(m[1], m[2], m[3])) => grid' = grid]_vars

----------------------------------------------------------------------------
(* The properties of unfill.                                               *)

(* C4: after unfill() returns on a filled 9x9 grid, nb_non_empty() is at   *)
(* least MIN_CLUES, whatever the solver answers and whichever cells are    *)
(* drawn.                                                                  *)
C4_ClueFloor ==
    (size = 3 /\ result = "Generated") => nb_non_empty(grid) >= MIN_CLUES

(* C5: the puzzle made by fill_rng(0) and unfill(Obvious) is solved by     *)
(* Obvious.solve on a copy of the grid, after every iteration of the loop  *)
(* of unfill and when unfill has returned.                                 *)
C5_StaysSolvable ==
    (pc = "unfill" \/ result = "Generated") => solve(grid, size).ok

\* unfill has emptied cells of the 9x9 grid and has put a value back after
\* the solver failed.
C5_Witness ==
    /\ pc = "unfill"
    /\ size = 3
    /\ attempt < MAX_UNFILL_ATTEMPTS
    /\ HasEmpty(grid)

----------------------------------------------------------------------------
(* C11 *)

\* C11: no call do_move(r, c, value) changes a cell whose initial flag is
\* true: on the grid of a game generated or loaded from a file, every cell
\* that is initial before the call has the same value and the same flag
\* after it.
C11_CluesKept ==
    [][\A m \in MoveInputs :
          (grid' # grid /\ DoMove(m[1], m[2], m[3]))
              => \A i \in DOMAIN grid : grid[i].initial => grid'[i] = grid[i]]_vars

----------------------------------------------------------------------------
(* C12 *)

\* C12: after do_move(r, c, v) has returned Ok, v is not in valids(n) for
\* any cell n of the row, the column or the block of (r, c) that is still
\* empty.
C12_MoveReducesCandidates ==
    [][\A m \in MoveInputs :
          (result' = "Ok" /\ grid' # grid /\ DoMove(m[1], m[2], m[3]))
              => \A n \in DOMAIN grid' :
                    (Related(size, Target(m[1], m[2]), n) /\ grid'[n].value = 0)
                        => m[3] \notin valids(grid', size, n)]_vars

\* A move was accepted on a 9x9 grid and cells of the row, the column and
\* the block of its cell are still empty.
C12_Witness ==
    /\ size = 3
    /\ pc = "play"
    /\ result = "Ok"
    /\ \E i \in DOMAIN grid :
          /\ grid[i].value # 0
          /\ ~ grid[i].initial
          /\ \E n \in DOMAIN grid : SameRow(size, i, n) /\ grid[n].value = 0
          /\ \E n \in DOMAIN grid : SameColumn(size, i, n) /\ grid[n].value = 0
          /\ \E n \in DOMAIN grid :
                SameBlock(size, i, n) /\ ~ SameRow(size, i, n) /\ grid[n].value = 0

----------------------------------------------------------------------------
(* C13 *)

\* C13: unfill changes the presence of a value, never the value: through
\* every iteration of its loop a cell either keeps the value it had or is
\* empty, so that after unfill every non-empty cell holds the value it held
\* in the filled grid and every other cell is empty.
C13_UnfillKeepsValues ==
    [][(pc = "unfill" \/ pc' = "unfill")
          => \A i \in DOMAIN grid :
                grid'[i].value = 0 \/ grid'[i].value = grid[i].value]_vars

\* unfill has returned on a 9x9 grid after it emptied cells and put values
\* back.
C13_Witness ==
    /\ size = 3
    /\ result = "Generated"
    /\ attempt = 0
    /\ HasEmpty(grid)
    /\ \E i \in DOMAIN grid : grid[i].value # 0

----------------------------------------------------------------------------
(* C14 *)

\* C14: valids(i) is 1 .. side less the values held by the cells of the row,
\* the column and the block of i, the cell i included (for an occupied cell
\* its own value is left out and the other unused values remain), whether
\* or not the loop of valids stops early on an empty set.
C14_ValidsIsUnused ==
    \A i \in DOMAIN grid :
        valids(grid, size, i) =
            (1 .. side_size) \ {grid[j].value : j \in {n \in DOMAIN grid : Related(size, i, n)}}

\* The test of valids: do_move(0, 0, 9) on a new 9x9 game, after which
\* valids(0) is 1 .. 8.
C14_Witness ==
    /\ size = 3
    /\ pc = "play"
    /\ result = "Ok"
    /\ grid = [EmptyGrid(side_size) EXCEPT ![0] = Cell(9, FALSE)]
    /\ valids(grid, size, 0) = 1 .. 8

----------------------------------------------------------------------------
(* C15 *)

\* What follows an accepted do_move(r, c, value) on an empty grid, g being
\* the grid after it: valids of an empty cell of the same row excludes
\* value, the same call again fails with NonEmptyCell, and do_move of the
\* same value on another cell of the row fails with InvalidValue.
AfterFirstMove(g, r, c, value) ==
    /\ \A c2 \in 0 .. side_size - 1 :
          c2 # c => /\ g[Target(r, c2)].value = 0
                    /\ value \notin valids(g, size, Target(r, c2))
                    /\ do_move(g, size, r, c2, value).result = "InvalidValue"
    /\ do_move(g, size, r, c, value).result = "NonEmptyCell"

\* C15 as stated: after do_move(r, c, v) has succeeded on an empty grid,
\* valids of the target cell index(r, c) is the empty set, valids of an
\* empty cell of the same row excludes v, a second do_move on (r, c) fails
\* with NonEmptyCell and do_move of v on another cell of the row fails with
\* InvalidValue.
C15_TargetHasNoCandidate ==
    [][\A m \in MoveInputs :
          (nb_non_empty(grid) = 0 /\ result' = "Ok" /\ DoMove(m[1], m[2], m[3]))
              => /\ valids(grid', size, Target(m[1], m[2])) = {}
                 /\ AfterFirstMove(grid', m[1], m[2], m[3])]_vars

\* C15, amended: after do_move(r, c, v) has succeeded on an empty grid,
\* valids of the target cell index(r, c) is 1 .. side without v, valids of
\* an empty cell of the same row excludes v, a second do_move on (r, c)
\* fails with NonEmptyCell and do_move of v on another cell of the row fails
\* with InvalidValue.
C15_TargetLosesItsValue ==
    [][\A m \in MoveInputs :
          (nb_non_empty(grid) = 0 /\ result' = "Ok" /\ DoMove(m[1], m[2], m[3]))
              => /\ valids(grid', size, Target(m[1], m[2])) = (1 .. side_size) \ {m[3]}
                 /\ AfterFirstMove(grid', m[1], m[2], m[3])]_vars

\* The first move on an empty 9x9 grid was accepted.
C15_Witness ==
    /\ size = 3
    /\ pc = "play"
    /\ result = "Ok"
    /\ nb_non_empty(grid) = 1
    /\ NbPlayer(grid) = 1

----------------------------------------------------------------------------
(* C16 *)

\* C16: on the grid of a game just built by Game::new, and on any grid just
\* after clear() (which leaves the game as Game::new built it), every cell
\* is {value: 0, initial: false} and valids(i) is the full set 1 .. B * B
\* for every index i.
C16_FreshGrid ==
    pc = "new" =>
        \A i \in 0 .. side_size * side_size - 1 :
            /\ grid[i] = [value |-> 0, initial |-> FALSE]
            /\ valids(grid, size, i) = 1 .. size * size

\* A 9x9 game without a save file, as built by Game::new(3, None) and as
\* clear() leaves it.
C16_Witness ==
    /\ pc = "new"
    /\ ~ save_file
    /\ size = 3
    /\ DOMAIN grid = 0 .. 80

----------------------------------------------------------------------------
(* C17 *)

\* C17: for every state of a game of block size 3, 4 or 5, from_file on the
\* file that save has written for that state gives a game with the same
\* block size, the same value and initial flag in every cell, and the same
\* selected_index and selected_value.
C17_RoundTrip ==
    [][(/\ pc = "play"
        /\ size \in {3, 4, 5}
        /\ file = SaveLines(size, selected_index, grid)
        /\ FromFile("none"))
          => /\ result' = "Ok"
             /\ size' = size
             /\ grid' = grid
             /\ selected_index' = selected_index
             /\ selected_value' = selected_value]_vars

----------------------------------------------------------------------------
(* C18 *)

\* C18: index and coordinates are row-major maps inverse of each other: for
\* r, c < side, index(r, c) = r * side + c and coordinates(index(r, c)) =
\* (r, c); for i < side * side, index(coordinates(i)) = i; on a 9x9 grid
\* coordinates(0) = (0, 0) and coordinates(9) = (1, 0).
C18_IndexCoordinates ==
    /\ pc = "index" =>
          /\ result = stack[1] * side_size + stack[2]
          /\ coordinates(side_size, result) = <<stack[1], stack[2]>>
    /\ pc = "coordinates" =>
          /\ index(side_size, result[1], result[2]) = stack[1]
          /\ result[1] < side_size /\ result[2] < side_size
          /\ (size = 3 /\ stack[1] = 0) => result = <<0, 0>>
          /\ (size = 3 /\ stack[1] = 9) => result = <<1, 0>>

\* test_coordinates: coordinates(9) was called on a 9x9 game.
C18_Witness ==
    /\ pc = "coordinates"
    /\ size = 3
    /\ stack = <<9>>
    /\ result = <<1, 0>>

----------------------------------------------------------------------------
(* C19 *)

\* The values that no cell of the row, the column or the block of i holds.
Unused(g, sz, i) ==
    (1 .. sz * sz) \ {g[j].value : j \in {n \in DOMAIN g : Related(sz, i, n)}}

\* The empty cells with exactly one such value.
Forced(g, sz) == {i \in DOMAIN g : g[i].value = 0 /\ Cardinality(Unused(g, sz, i)) = 1}

\* C19: a call of Obvious.solve on a grid that is not is_done sets the
\* lowest-index empty cell that has exactly one candidate to that candidate,
\* with initial = false, and solves again; it returns FailedToSolve exactly
\* when the grid is not is_done and no empty cell has exactly one candidate.
\* Nothing else can follow, so that the result and the final grid are a
\* function of the grid handed to the solver.
C19_LowestSingleFirst ==
    [][pc = "solve" =>
          LET forced == Forced(grid, size)
          IN  /\ (result' = "FailedToSolve") <=> (~ is_done(grid, size) /\ forced = {})
              /\ (~ is_done(grid, size) /\ forced # {}) =>
                    LET i == CHOOSE x \in forced : \A y \in forced : x <= y
                    IN  /\ pc' = "solve"
                        /\ grid' = [grid EXCEPT ![i] =
                                       [value   |-> CHOOSE v \in Unused(grid, size, i) : TRUE,
                                        initial |-> FALSE]]
              /\ (~ is_done(grid, size) /\ forced = {}) =>
                    pc' = "unsolved" /\ grid' = grid]_vars

\* The solver has set a cell of a 9x9 grid and has then failed on a grid
\* without a cell of a single candidate.
C19_Witness ==
    /\ pc = "unsolved"
    /\ size = 3
    /\ result = "FailedToSolve"
    /\ \E i \in DOMAIN grid : grid[i].value # 0 /\ ~ grid[i].initial

----------------------------------------------------------------------------
(* C20 *)

\* C20: when Obvious.solve returns Ok the grid is finished, every row,
\* column and block holding each value once, and no call of solve changes a
\* cell that is not empty, so that the cells non-empty on entry have the
\* value and the flag they had; on a grid that is_done on entry, solve
\* returns Ok and changes no cell.
C20_SolvedKeepsCells ==
    [][pc = "solve" =>
          /\ \A i \in DOMAIN grid : grid[i].value # 0 => grid'[i] = grid[i]
          /\ result' = "Ok" => (~ HasEmpty(grid') /\ ExactlyOnce(grid', size))
          /\ is_done(grid, size) => (result' = "Ok" /\ grid' = grid)]_vars

\* The solver has set cells of a copy of the 9x9 puzzle, next to its clues,
\* and has returned Ok.
C20_Witness ==
    /\ pc = "solved"
    /\ size = 3
    /\ result = "Ok"
    /\ \E i \in DOMAIN grid : ~ grid[i].initial
    /\ \E i \in DOMAIN grid : grid[i].initial

----------------------------------------------------------------------------
(* C21 *)

\* C21: backtracking in fill_rng leaves no residue.  The calls in progress
\* are fill_rng(0) .. fill_rng(Len(stack) - 1): a step of the innermost one
\* changes no cell of a lower index, so that no call ever modifies a cell
\* before its own; every call starts with its cell and the later ones
\* empty; and when a call returns false its cell and every later cell are
\* {0, initial: false}.
C21_NoResidue ==
    [][pc = "fill" =>
          /\ \A i \in DOMAIN grid : i < Len(stack) - 1 => grid'[i] = grid[i]
          /\ Len(stack') > Len(stack) =>
                \A i \in DOMAIN grid : i >= Len(stack') - 1 => grid'[i] = EmptyCell
          /\ Len(stack') < Len(stack) /\ result' # "true" =>
                \A i \in DOMAIN grid : i >= Len(stack) - 1 => grid'[i] = EmptyCell]_vars

\* A call fill_rng(k + 1) has returned false to the loop of fill_rng(k) on
\* the 9x9 grid: cell k still holds the value tried, the later cells are
\* empty.
C21_Witness ==
    /\ pc = "fill"
    /\ size = 3
    /\ Len(stack) >= 2
    /\ grid[Len(stack) - 1].value # 0
    /\ \A i \in DOMAIN grid : i >= Len(stack) => grid[i] = EmptyCell

----------------------------------------------------------------------------
(* C22 *)

\* C22: an iteration of the loop of unfill picks a non-empty cell; if the
\* solver fails on the copy where the cell is empty, the cell has its
\* previous value with initial = true and attempt is one less; if the solver
\* succeeds, the cell is {0, initial: false} and attempt is unchanged; no
\* other cell changes.
C22_UnfillIteration ==
    [][(pc = "unfill" /\ pc' = "unfill") =>
          \E random_index \in RngDraws(grid) :
             /\ grid[random_index].value # 0
             /\ \A i \in DOMAIN grid : i # random_index => grid'[i] = grid[i]
             /\ IF solve([grid EXCEPT ![random_index] =
                             [value |-> 0, initial |-> FALSE]], size).ok
                THEN /\ grid'[random_index] = [value |-> 0, initial |-> FALSE]
                     /\ attempt' = attempt
                ELSE /\ grid'[random_index] =
                           [value |-> grid[random_index].value, initial |-> TRUE]
                     /\ attempt' = attempt - 1]_vars

\* On the 9x9 grid, iterations have emptied cells and two have put the
\* value back.
C22_Witness ==
    /\ pc = "unfill"
    /\ size = 3
    /\ attempt = MAX_UNFILL_ATTEMPTS - 2
    /\ nb_empty(grid) >= 2

----------------------------------------------------------------------------
(* C23 *)

\* C23: unfill terminates (the resampling being taken to end on a non-empty
\* cell): every iteration either removes one clue or consumes one attempt,
\* attempt stays within 0 .. MAX_UNFILL_ATTEMPTS, so that at most
\* MAX_UNFILL_ATTEMPTS removals are rejected, and unfill returns with
\* attempt = 0 or with fewer than MIN_CLUES clues.
C23_UnfillTerminates ==
    /\ [][(pc = "unfill" /\ pc' = "unfill") =>
            \/ /\ nb_non_empty(grid') = nb_non_empty(grid) - 1
               /\ attempt' = attempt
            \/ /\ nb_non_empty(grid') = nb_non_empty(grid)
               /\ attempt' = attempt - 1]_vars
    /\ [](attempt \in 0 .. MAX_UNFILL_ATTEMPTS)
    /\ (pc = "unfill") ~>
          (result = "Generated" /\ (attempt = 0 \/ nb_non_empty(grid) < MIN_CLUES))

\* unfill has returned on the 9x9 grid because the clue floor was reached,
\* with attempts left.
C23_Witness ==
    /\ size = 3
    /\ result = "Generated"
    /\ attempt > 0
    /\ nb_non_empty(grid) < MIN_CLUES

----------------------------------------------------------------------------
(* C24 *)

\* C24: the solver works on a copy, and nothing it writes shows in the grid
\* that unfill reduces: through unfill and after clear, fill_rng(0) and
\* unfill, a cell is initial if and only if it is not empty (the cells left
\* are givens, the cells removed are {0, initial: false}, no cell is
\* non-empty and non-initial).
C24_GivensOnly ==
    (pc = "unfill" \/ result = "Generated") =>
        \A i \in DOMAIN grid : grid[i].initial <=> grid[i].value # 0

\* new_random_game has returned a 9x9 puzzle from which the solver accepted
\* the removal of ten cells or more.
C24_Witness ==
    /\ pc = "play"
    /\ size = 3
    /\ result = "Generated"
    /\ nb_empty(grid) >= 10
----------------------------------------------------------------------------
(* C26 *)

\* C26: in every state reached by from_file and by clicks of
\* GameScreen::update, selected_value is present only when selected_index
\* is, and is then the value that the cell at selected_index holds.
C26_SelectionDerived ==
    (pc = "play" /\ selected_value # None) =>
        /\ selected_index # None
        /\ selected_value[1] = grid[selected_index[1]].value
----------------------------------------------------------------------------
(* C27 *)

\* The indices of a sequence are side distinct indices of the grid.
SideDistinct(s) ==
    /\ Len(s) = side_size
    /\ \A k \in 1 .. Len(s) : s[k] \in 0 .. side_size * side_size - 1
    /\ \A j \in 1 .. Len(s), k \in 1 .. Len(s) : j # k => s[j] # s[k]

\* The cells of the B x B block whose origin is ((r / B) * B, (c / B) * B).
BlockCells(r, c) ==
    {r2 * side_size + c2 :
        r2 \in (r \div size) * size .. (r \div size) * size + size - 1,
        c2 \in (c \div size) * size .. (c \div size) * size + size - 1}

Elements(s) == {s[k] : k \in 1 .. Len(s)}

----------------------------------------------------------------------------
(* C28 *)

\* Some empty cell has no candidate left.
Stuck(g, sz) == \E i \in DOMAIN g : g[i].value = 0 /\ valids(g, sz, i) = {}

\* The game of Cli: a generated puzzle and the moves of its player.
CliLoop == pc = "play" /\ save_file

----------------------------------------------------------------------------
(* C29 *)

\* The values that Obvious.solve leaves on a copy of the grid.
Solved(g) == LET s == solve(g, size) IN [i \in DOMAIN g |-> s.grid[i].value]

\* C29: Obvious.solve on a copy of the puzzle made by fill_rng(0) and
\* unfill(Obvious) yields, cell by cell, the values of the filled grid.
\* Stated along the generation: on the filled grid the solver yields the
\* values of the grid itself, and no step of unfill, removal or refusal,
\* nor its return, changes a value that the solver yields.
C29_SolverRebuildsFilled ==
    /\ []((pc = "filled" /\ result = "true") =>
             \A i \in DOMAIN grid : Solved(grid)[i] = grid[i].value)
    /\ [][(pc \in {"filled", "unfill"} /\ pc' \in {"unfill", "play"}) =>
             /\ solve(grid', size).ok
             /\ Solved(grid') = Solved(grid)]_vars

\* unfill(Obvious) has returned a 9x9 puzzle with ten empty cells or more,
\* one of them with more than one candidate.
C29_Witness ==
    /\ pc = "play"
    /\ size = 3
    /\ result = "Generated"
    /\ nb_empty(grid) >= 10
    /\ \E i \in DOMAIN grid : grid[i].value = 0 /\ Cardinality(valids(grid, size, i)) > 1
----------------------------------------------------------------------------
(* C30 *)

\* C30: on a filled grid of MIN_CLUES cells or more, the first iteration of
\* unfill(Obvious) removes a clue: it leaves one empty cell, which has
\* exactly one candidate, and the attempts are not counted down.  The puzzle
\* that new_random_game returns for such a grid has an empty cell, and
\* is_done() is false on it.
C30_FirstRemovalAccepted ==
    /\ [][(pc = "unfill" /\ pc' = "unfill" /\ nb_empty(grid) = 0
           /\ nb_non_empty(grid) >= MIN_CLUES /\ attempt = MAX_UNFILL_ATTEMPTS) =>
             /\ nb_empty(grid') = 1
             /\ attempt' = attempt
             /\ \A i \in DOMAIN grid :
                   grid'[i].value = 0 => Cardinality(valids(grid', size, i)) = 1]_vars
    /\ []((pc = "play" /\ result = "Generated" /\ side_size * side_size >= MIN_CLUES) =>
             /\ HasEmpty(grid)
             /\ ~ is_done(grid, size))

\* unfill(Obvious) has emptied the first cell it drew from a filled 9x9
\* grid.
C30_Witness ==
    /\ pc = "unfill"
    /\ size = 3
    /\ attempt = MAX_UNFILL_ATTEMPTS
    /\ nb_empty(grid) = 1

====
